---- MODULE Spec2Model ----
(***************************************************************************)
(* A model of the PPE detection web application:                           *)
(*   - PPEDetector.detect and its helpers (app/core/detector.py),          *)
(*   - the lazily initialised global detector (app.py, init_detector),     *)
(*   - the frame generator generate_frames (app.py), run by the threaded   *)
(*     web server on one thread per /video_feed request.                   *)
(*                                                                         *)
(* Strings are modelled as tuples of one-character strings so that         *)
(* str.lower() and str.replace(" ", "_") are computed, not assumed.        *)
(* Confidences are modelled in hundredths (0.81 is 81): the code only      *)
(* compares and copies them.                                               *)
(***************************************************************************)
EXTENDS Integers, Sequences, FiniteSets, TLC

(* ------------------------------ bounds -------------------------------- *)

\* largest number of boxes the model reports for one frame
MaxBoxes == 3

\* largest number of detect calls made on one detector in SpecCalls
MaxCalls == 3

\* largest number of frames a camera delivers before its reads fail
MaxFrames == 2

(* ------------------------------- state -------------------------------- *)

VARIABLES
    \* one PPEDetector driven directly (SpecAgg, SpecCalls)
    boxes,        \* results.boxes: what the model reports for the current frame
    ret,          \* <<>> before the first call, then <<the dict detect returned>>
    history,      \* the calls made so far, as [boxes, record] (observation only)
    apc,          \* "ready": a frame is waiting for detect; "done": detect returned
    \* the web application (Spec)
    modelExists,  \* os.path.exists(config.MODEL_PATH)
    detector,     \* the global handle: 0 is None, n > 0 the n-th PPEDetector built
    constructed,  \* how many PPEDetector objects have been constructed
    pc,           \* per request thread: where its generate_frames stands
    camera,       \* per thread: "none", "unopened", "open" or "released"
    reads,        \* per thread: the outcomes of its camera.read() calls, in order
    frame,        \* per thread: the frame in hand (its number in the stream), 0 if none
    results,      \* per thread: <<>> or <<the dict detect returned for the frame>>
    annotated,    \* per thread: <<>> or <<the annotated frame>>
    frame_bytes,  \* per thread: the bytes imencode produced for the frame
    encoded,      \* per thread: every frame_bytes produced so far (observation only)
    emitted,      \* per thread: the chunks handed to the consumer, in order
    releases,     \* per thread: how many times camera.release() was called
    disconnected, \* per thread: the consumer of the response has gone away
    exitReason    \* per thread: "" while running, then why the generator ended

aggVars == <<boxes, ret, history, apc>>

globalVars == <<modelExists, detector, constructed>>

threadVars ==
    <<pc, camera, reads, frame, results, annotated, frame_bytes, encoded,
      emitted, releases, disconnected, exitReason>>

vars == <<aggVars, globalVars, threadVars>>

\* the request threads of the server (app.run(..., threaded=True))
Threads == {"t1", "t2"}

(* ------------------------------ strings ------------------------------- *)

UpperChars ==
    <<"A","B","C","D","E","F","G","H","I","J","K","L","M",
      "N","O","P","Q","R","S","T","U","V","W","X","Y","Z">>

LowerChars ==
    <<"a","b","c","d","e","f","g","h","i","j","k","l","m",
      "n","o","p","q","r","s","t","u","v","w","x","y","z">>

\* str.lower() on one character
LowerChar(c) ==
    IF \E i \in DOMAIN UpperChars : UpperChars[i] = c
    THEN LowerChars[CHOOSE i \in DOMAIN UpperChars : UpperChars[i] = c]
    ELSE c

\* str.lower()
Lower(s) == [i \in DOMAIN s |-> LowerChar(s[i])]

\* str.replace(" ", "_")
ReplaceSpaces(s) == [i \in DOMAIN s |-> IF s[i] = " " THEN "_" ELSE s[i]]

\* NormalizeName with a fault: the name is lower-cased but spaces are kept
NormalizeNameNoReplace(raw) == Lower(raw)

\* detector.py line 72: results.names[class_id].lower().replace(" ", "_")
NormalizeName(raw) == ReplaceSpaces(Lower(raw))

(* --------------------------- PPE categories --------------------------- *)

helmet == <<"h","e","l","m","e","t">>

safety_glasses == <<"s","a","f","e","t","y","_","g","l","a","s","s","e","s">>

gloves == <<"g","l","o","v","e","s">>

\* config.py line 37: Config.REQUIRED_PPE, the configured category order
REQUIRED_PPE == <<helmet, safety_glasses, gloves>>

\* required_ppe with a fault: the categories in another order
required_ppe_reordered == <<gloves, helmet, safety_glasses>>

\* detector.py line 37: self.required_ppe
required_ppe == <<helmet, safety_glasses, gloves>>

(* ---------------------- the model's raw output ------------------------ *)

\* results.names: the class vocabulary of the trained model (class id -> name).
\* The vocabulary is an input; this one has capitalised names, a name with a
\* space, an already normalised name and two classes that are not required PPE.
names ==
    [cid \in 0..4 |->
        CASE cid = 0 -> <<"H","e","l","m","e","t">>
          [] cid = 1 -> <<"S","a","f","e","t","y"," ","G","l","a","s","s","e","s">>
          [] cid = 2 -> <<"g","l","o","v","e","s">>
          [] cid = 3 -> <<"P","e","r","s","o","n">>
          [] cid = 4 -> <<"s","a","f","e","t","y","-","g","l","a","s","s","e","s">>]

ClassIds == DOMAIN names

\* detector.py line 72, for every class id: the class_name a box of that
\* class gets (the value depends on the class id alone)
class_names == [cid \in ClassIds |-> NormalizeName(names[cid])]

\* box.conf[0] in hundredths
Confidences == {30, 50, 81}

\* box.xyxy[0].tolist()
BBoxes == {<<10, 20, 110, 220>>}

\* one element of results.boxes
RawBoxes == [cls : ClassIds, conf : Confidences, xyxy : BBoxes]

RECURSIVE SeqsUpTo(_, _)
SeqsUpTo(S, n) ==
    IF n = 0 THEN {<<>>}
    ELSE LET shorter == SeqsUpTo(S, n - 1)
         IN  shorter \cup {Append(s, x) : s \in {q \in shorter : Len(q) = n - 1}, x \in S}

\* every results.boxes of at most MaxBoxes boxes
Frames == SeqsUpTo(RawBoxes, MaxBoxes)

(* ----------------------------- PPEDetector ---------------------------- *)

\* FreshDetected with a fault: the dictionary of the previous call is reused
CarriedDetected ==
    IF ret = <<>>
    THEN [c \in {helmet, safety_glasses, gloves} |->
            [detected |-> FALSE, confidence |-> 0, boxes |-> <<>>]]
    ELSE ret[1].detected_items

\* detector.py lines 63-67: the dictionary _parse_detections starts from
FreshDetected ==
    [c \in {helmet, safety_glasses, gloves} |->
        [detected |-> FALSE, confidence |-> 0, boxes |-> <<>>]]

\* ParseBox with a fault: the confidence of the last box is kept, not the largest
ParseBoxKeepLast(detected, box) ==
    LET class_name == class_names[box.cls]
    IN  IF class_name \in DOMAIN detected
        THEN [detected EXCEPT ![class_name] =
                [detected   |-> TRUE,
                 boxes      |-> Append(@.boxes,
                                  [confidence |-> box.conf, bbox |-> box.xyxy]),
                 confidence |-> box.conf]]
        ELSE detected

\* detector.py lines 70-82: the body of the loop over results.boxes
ParseBox(detected, box) ==
    LET class_id   == box.cls
        confidence == box.conf
        class_name == class_names[class_id]
    IN  IF class_name \in DOMAIN detected
        THEN [detected EXCEPT ![class_name] =
                [detected   |-> TRUE,
                 boxes      |-> Append(@.boxes,
                                  [confidence |-> confidence, bbox |-> box.xyxy]),
                 confidence |-> IF confidence > @.confidence
                                THEN confidence ELSE @.confidence]]
        ELSE detected

\* detector.py lines 69-84: the loop over results.boxes, in their order
RECURSIVE ParseFrom(_, _)
ParseFrom(detected, rest) ==
    IF rest = <<>> THEN detected
    ELSE ParseFrom(ParseBox(detected, Head(rest)), Tail(rest))

\* detector.py lines 61-84: _parse_detections
_parse_detections(results_boxes) == ParseFrom(FreshDetected, results_boxes)

\* detector.py lines 86-91: _check_compliance
_check_compliance(detected_items) ==
    \A i \in DOMAIN required_ppe : detected_items[required_ppe[i]].detected

\* detector.py lines 93-98: _get_missing_items
_get_missing_items(detected_items) ==
    LET isMissing(item) == ~detected_items[item].detected
    IN  SelectSeq(required_ppe, isMissing)

\* detector.py lines 39-59: detect; raw_results is the model's output itself
detect(results_boxes) ==
    LET detected_items == _parse_detections(results_boxes)
    IN  [detected_items    |-> detected_items,
         compliance_status |-> _check_compliance(detected_items),
         missing_items     |-> _get_missing_items(detected_items),
         raw_results       |-> results_boxes]

(* --------------------- one detector, called directly ------------------ *)

\* frames of a recorded clip: nothing, a helmet alone, full PPE with a
\* bystander, gloves before helmet, and three helmets of rising and falling
\* confidence
SampleFrames ==
    LET b(c, p) == [cls |-> c, conf |-> p, xyxy |-> <<10, 20, 110, 220>>]
    IN  << <<>>,
           <<b(0, 81)>>,
           <<b(0, 50), b(3, 81), b(1, 81), b(2, 30)>>,
           <<b(2, 50), b(0, 81)>>,
           <<b(0, 30), b(0, 81), b(0, 50)>> >>

\* detector.py lines 39-59: one call of detect on the model's output for a frame
Detect ==
    /\ apc = "ready"
    /\ ret' = <<detect(boxes)>>
    /\ history' = Append(history, [boxes |-> boxes, record |-> detect(boxes)])
    /\ apc' = "done"
    /\ UNCHANGED <<boxes, globalVars, threadVars>>

\* the caller hands the next frame of the clip to the same detector
NextFrame ==
    /\ apc = "done"
    /\ Len(history) < MaxCalls
    /\ \E i \in DOMAIN SampleFrames : boxes' = SampleFrames[i]
    /\ apc' = "ready"
    /\ UNCHANGED <<ret, history, globalVars, threadVars>>

\* the web application before any request
AppIdle ==
    /\ detector = 0
    /\ constructed = 0
    /\ pc = [t \in Threads |-> "new"]
    /\ camera = [t \in Threads |-> "none"]
    /\ reads = [t \in Threads |-> <<>>]
    /\ frame = [t \in Threads |-> 0]
    /\ results = [t \in Threads |-> <<>>]
    /\ annotated = [t \in Threads |-> <<>>]
    /\ frame_bytes = [t \in Threads |-> <<>>]
    /\ encoded = [t \in Threads |-> <<>>]
    /\ emitted = [t \in Threads |-> <<>>]
    /\ releases = [t \in Threads |-> 0]
    /\ disconnected = [t \in Threads |-> FALSE]
    /\ exitReason = [t \in Threads |-> ""]

\* detect applied once to every output of at most MaxBoxes boxes
InitAgg ==
    /\ boxes \in Frames
    /\ ret = <<>>
    /\ history = <<>>
    /\ apc = "ready"
    /\ modelExists = TRUE
    /\ AppIdle

NextAgg == Detect

SpecAgg == InitAgg /\ [][NextAgg]_vars

\* detect applied to up to MaxCalls frames of the clip, one after another
InitCalls ==
    /\ \E i \in DOMAIN SampleFrames : boxes = SampleFrames[i]
    /\ ret = <<>>
    /\ history = <<>>
    /\ apc = "ready"
    /\ modelExists = TRUE
    /\ AppIdle

NextCalls == Detect \/ NextFrame

SpecCalls == InitCalls /\ [][NextCalls]_vars

(* --------------------------- the web application --------------------- *)

\* what the model reports for the k-th frame of the stream: the clip, repeated
ModelOutput(k) == SampleFrames[((k - 1) % Len(SampleFrames)) + 1]

\* detector.py lines 100-143: annotate_frame returns a copy of the frame with
\* the boxes drawn and the banner of lines 134-141
annotate_frame(k, detection_results) ==
    [seq    |-> k,
     nboxes |-> Len(detection_results.raw_results),
     status |-> IF detection_results.compliance_status
                THEN "COMPLIANT" ELSE "NON-COMPLIANT"]

\* app.py lines 83-84: cv2.imencode('.jpg', ...) and buffer.tobytes(): a JPEG
\* stream, start-of-image marker, a stand-in for the coded picture, end marker
JpegBytes(image) ==
    <<255, 216>> \o <<image.seq, image.nboxes>>
        \o (IF image.status = "COMPLIANT" THEN <<1>> ELSE <<>>) \o <<255, 217>>

\* app.py lines 86-87: the multipart chunk, read as boundary line, header
\* lines, blank line, payload and trailing CRLF
Chunk(payload) ==
    [boundary |-> "--frame",
     headers  |-> <<[name |-> "Content-Type", value |-> "image/jpeg"]>>,
     payload  |-> payload,
     trailer  |-> "\r\n"]

\* the generator ends without reaching the try block (app.py lines 63 and 69)
Return(t, why) ==
    /\ pc' = [pc EXCEPT ![t] = "done"]
    /\ exitReason' = [exitReason EXCEPT ![t] = why]

\* Finally with a fault: the generator ends and the camera is left as it is
FinallySkipped(t, why) ==
    /\ pc' = [pc EXCEPT ![t] = "done"]
    /\ exitReason' = [exitReason EXCEPT ![t] = why]
    /\ UNCHANGED <<camera, releases>>

\* app.py lines 89-91: the finally block, then the generator ends
Finally(t, why) ==
    /\ camera' = [camera EXCEPT ![t] = "released"]
    /\ releases' = [releases EXCEPT ![t] = @ + 1]
    /\ pc' = [pc EXCEPT ![t] = "done"]
    /\ exitReason' = [exitReason EXCEPT ![t] = why]

\* app.py lines 93-97 and 59-61: the server starts iterating the response;
\* generate_frames calls init_detector
Start(t) ==
    /\ pc[t] = "new"
    /\ pc' = [pc EXCEPT ![t] = "init_check"]
    /\ UNCHANGED <<aggVars, globalVars, camera, reads, frame, results, annotated,
                   frame_bytes, encoded, emitted, releases, disconnected, exitReason>>

\* app.py lines 28 and 40: the test "detector is None"; when it fails
\* init_detector returns True and generate_frames goes on to the camera
InitCheck(t) ==
    /\ pc[t] = "init_check"
    /\ pc' = [pc EXCEPT ![t] = IF detector = 0 THEN "init_exists" ELSE "open"]
    /\ UNCHANGED <<aggVars, globalVars, camera, reads, frame, results, annotated,
                   frame_bytes, encoded, emitted, releases, disconnected, exitReason>>

\* app.py lines 29-32 and 61-63: the model file is missing, init_detector
\* returns False and generate_frames returns
InitMissing(t) ==
    /\ pc[t] = "init_exists"
    /\ ~modelExists
    /\ Return(t, "model_missing")
    /\ UNCHANGED <<aggVars, globalVars, camera, reads, frame, results, annotated,
                   frame_bytes, encoded, emitted, releases, disconnected>>

\* app.py line 30: the model file is there
InitExists(t) ==
    /\ pc[t] = "init_exists"
    /\ modelExists
    /\ pc' = [pc EXCEPT ![t] = "init_construct"]
    /\ UNCHANGED <<aggVars, globalVars, camera, reads, frame, results, annotated,
                   frame_bytes, encoded, emitted, releases, disconnected, exitReason>>

\* app.py lines 34-40: a PPEDetector is constructed and assigned to the global
InitConstruct(t) ==
    /\ pc[t] = "init_construct"
    /\ constructed' = constructed + 1
    /\ detector' = constructed + 1
    /\ pc' = [pc EXCEPT ![t] = "open"]
    /\ UNCHANGED <<aggVars, modelExists, camera, reads, frame, results, annotated,
                   frame_bytes, encoded, emitted, releases, disconnected, exitReason>>

\* app.py lines 65-71: the camera opens and the loop is entered
OpenCamera(t) ==
    /\ pc[t] = "open"
    /\ camera' = [camera EXCEPT ![t] = "open"]
    /\ pc' = [pc EXCEPT ![t] = "read"]
    /\ UNCHANGED <<aggVars, globalVars, reads, frame, results, annotated,
                   frame_bytes, encoded, emitted, releases, disconnected, exitReason>>

\* app.py lines 65-69: the camera does not open and generate_frames returns
OpenFails(t) ==
    /\ pc[t] = "open"
    /\ camera' = [camera EXCEPT ![t] = "unopened"]
    /\ Return(t, "open_failed")
    /\ UNCHANGED <<aggVars, globalVars, reads, frame, results, annotated,
                   frame_bytes, encoded, emitted, releases, disconnected>>

\* app.py lines 75-76: camera.read() delivers the next frame of the stream
ReadFrame(t) ==
    /\ pc[t] = "read"
    /\ Len(SelectSeq(reads[t], LAMBDA ok : ok)) < MaxFrames
    /\ reads' = [reads EXCEPT ![t] = Append(@, TRUE)]
    /\ frame' = [frame EXCEPT ![t] = Len(reads[t]) + 1]
    /\ pc' = [pc EXCEPT ![t] = "detect"]
    /\ UNCHANGED <<aggVars, globalVars, camera, results, annotated, frame_bytes,
                   encoded, emitted, releases, disconnected, exitReason>>

\* app.py lines 75-77 and 89-91: camera.read() fails, break, finally
ReadFails(t) ==
    /\ pc[t] = "read"
    /\ reads' = [reads EXCEPT ![t] = Append(@, FALSE)]
    /\ Finally(t, "read_failed")
    /\ UNCHANGED <<aggVars, globalVars, frame, results, annotated, frame_bytes,
                   encoded, emitted, disconnected>>

\* app.py line 79: detector.detect(frame)
DetectFrame(t) ==
    /\ pc[t] = "detect"
    /\ results' = [results EXCEPT ![t] = <<detect(ModelOutput(frame[t]))>>]
    /\ pc' = [pc EXCEPT ![t] = "annotate"]
    /\ UNCHANGED <<aggVars, globalVars, camera, reads, frame, annotated, frame_bytes,
                   encoded, emitted, releases, disconnected, exitReason>>

\* app.py line 81: detector.annotate_frame(frame, results)
AnnotateFrame(t) ==
    /\ pc[t] = "annotate"
    /\ annotated' = [annotated EXCEPT ![t] = <<annotate_frame(frame[t], results[t][1])>>]
    /\ pc' = [pc EXCEPT ![t] = "encode"]
    /\ UNCHANGED <<aggVars, globalVars, camera, reads, frame, results, frame_bytes,
                   encoded, emitted, releases, disconnected, exitReason>>

\* EncodeFrame with a fault: a frame is encoded and then dropped, the loop
\* going back to camera.read() without a yield
EncodeFrameAndDrop(t) ==
    /\ pc[t] = "encode"
    /\ frame_bytes' = [frame_bytes EXCEPT ![t] = JpegBytes(annotated[t][1])]
    /\ encoded' = [encoded EXCEPT ![t] = Append(@, JpegBytes(annotated[t][1]))]
    /\ pc' = [pc EXCEPT ![t] = "read"]
    /\ UNCHANGED <<aggVars, globalVars, camera, reads, frame, results, annotated,
                   emitted, releases, disconnected, exitReason>>

\* app.py lines 83-84: cv2.imencode and buffer.tobytes()
EncodeFrame(t) ==
    /\ pc[t] = "encode"
    /\ frame_bytes' = [frame_bytes EXCEPT ![t] = JpegBytes(annotated[t][1])]
    /\ encoded' = [encoded EXCEPT ![t] = Append(@, JpegBytes(annotated[t][1]))]
    /\ pc' = [pc EXCEPT ![t] = "yield"]
    /\ UNCHANGED <<aggVars, globalVars, camera, reads, frame, results, annotated,
                   emitted, releases, disconnected, exitReason>>

\* app.py lines 79-84 and 89-91: the model call, annotate_frame (whose line 140
\* reads cv2.FONT_HERSHEY_BOLD, an AttributeError wherever the cv2 build
\* defines no such font) or imencode/tobytes raises; the exception leaves
\* the try block through finally
Raise(t) ==
    /\ pc[t] \in {"detect", "annotate", "encode"}
    /\ Finally(t, "exception")
    /\ UNCHANGED <<aggVars, globalVars, reads, frame, results, annotated, frame_bytes,
                   encoded, emitted, disconnected>>

\* Yield with a fault: the new chunk is put in front of the ones already sent
YieldInFront(t) ==
    /\ pc[t] = "yield"
    /\ emitted' = [emitted EXCEPT ![t] = <<Chunk(frame_bytes[t])>> \o @]
    /\ pc' = [pc EXCEPT ![t] = "suspended"]
    /\ UNCHANGED <<aggVars, globalVars, camera, reads, frame, results, annotated,
                   frame_bytes, encoded, releases, disconnected, exitReason>>

\* app.py lines 86-87: the chunk is handed to the consumer and the generator
\* is suspended
Yield(t) ==
    /\ pc[t] = "yield"
    /\ emitted' = [emitted EXCEPT ![t] = Append(@, Chunk(frame_bytes[t]))]
    /\ pc' = [pc EXCEPT ![t] = "suspended"]
    /\ UNCHANGED <<aggVars, globalVars, camera, reads, frame, results, annotated,
                   frame_bytes, encoded, releases, disconnected, exitReason>>

\* the consumer asks for the next chunk: the loop goes on at line 74
Resume(t) ==
    /\ pc[t] = "suspended"
    /\ pc' = [pc EXCEPT ![t] = "read"]
    /\ UNCHANGED <<aggVars, globalVars, camera, reads, frame, results, annotated,
                   frame_bytes, encoded, emitted, releases, disconnected, exitReason>>

\* Close with a fault: the suspended generator is dropped without being closed
CloseAbandons(t) ==
    /\ pc[t] = "suspended"
    /\ pc' = [pc EXCEPT ![t] = "done"]
    /\ exitReason' = [exitReason EXCEPT ![t] = "closed"]
    /\ UNCHANGED <<aggVars, globalVars, camera, releases, reads, frame, results,
                   annotated, frame_bytes, encoded, emitted, disconnected>>

\* the consumer closes the generator (it stops, or writing to a departed
\* client failed): GeneratorExit is raised at the yield of line 86 and leaves
\* the try block through finally (lines 89-91)
Close(t) ==
    /\ pc[t] = "suspended"
    /\ Finally(t, "closed")
    /\ UNCHANGED <<aggVars, globalVars, reads, frame, results, annotated, frame_bytes,
                   encoded, emitted, disconnected>>

\* the client of the response goes away, at any moment of the request
Disconnect(t) ==
    /\ pc[t] \notin {"new", "done"}
    /\ ~disconnected[t]
    /\ disconnected' = [disconnected EXCEPT ![t] = TRUE]
    /\ UNCHANGED <<aggVars, globalVars, pc, camera, reads, frame, results, annotated,
                   frame_bytes, encoded, emitted, releases, exitReason>>

Init ==
    /\ boxes = <<>>
    /\ ret = <<>>
    /\ history = <<>>
    /\ apc = "idle"
    /\ modelExists \in BOOLEAN
    /\ AppIdle

Next ==
    \E t \in Threads :
        \/ Start(t)
        \/ InitCheck(t)
        \/ InitMissing(t)
        \/ InitExists(t)
        \/ InitConstruct(t)
        \/ OpenCamera(t)
        \/ OpenFails(t)
        \/ ReadFrame(t)
        \/ ReadFails(t)
        \/ DetectFrame(t)
        \/ AnnotateFrame(t)
        \/ EncodeFrame(t)
        \/ Raise(t)
        \/ Yield(t)
        \/ Resume(t)
        \/ Close(t)
        \/ Disconnect(t)

Spec == Init /\ [][Next]_vars

(* ------------------- claims about the aggregation --------------------- *)

\* the claims' own reading of "normalized": every character lower-cased and
\* every space turned into an underscore
LowerCasedUnderscored(raw) ==
    [i \in DOMAIN raw |-> IF raw[i] = " " THEN "_" ELSE LowerChar(raw[i])]

\* the normalized name of every class of the vocabulary
NormalizedNames == [cid \in ClassIds |-> LowerCasedUnderscored(names[cid])]

\* the positions of the boxes of frame f whose normalized class name is c
BoxesOf(f, c) == {j \in DOMAIN f : NormalizedNames[f[j].cls] = c}

SetMax(S) == CHOOSE m \in S : \A x \in S : x <= m

RECURSIVE Orderings(_)
Orderings(S) ==
    IF S = {} THEN {<<>>}
    ELSE UNION {{<<x>> \o o : o \in Orderings(S \ {x})} : x \in S}

\* every order in which the boxes of frame f can arrive
Arrivals(f) == {[i \in DOMAIN f |-> f[o[i]]] : o \in Orderings(DOMAIN f)}

\* C4: the verdict detect returns is true exactly when each of helmet,
\* safety_glasses and gloves has at least one box whose normalized class name
\* is that category; boxes of any other class do not enter the verdict.
C4_VerdictIffAllCategoriesDetected ==
    apc = "done" =>
        (ret[1].compliance_status
            <=> \A c \in {helmet, safety_glasses, gloves} : BoxesOf(boxes, c) # {})

\* a compliant frame: gloves, then "Safety Glasses" and "Helmet", whose names
\* match their categories only after normalization
C4_Witness ==
    /\ apc = "done"
    /\ ret[1].compliance_status
    /\ boxes[1].cls = 2 /\ boxes[2].cls = 1 /\ boxes[3].cls = 0

\* C5: the missing list detect returns holds exactly the required categories
\* without a box, each once, in the configured order helmet, safety_glasses,
\* gloves, and it is the same for every arrival order of the frame's boxes.
C5_MissingInConfiguredOrder ==
    apc = "done" =>
        LET absent(c) == BoxesOf(boxes, c) = {}
        IN  /\ ret[1].missing_items = SelectSeq(REQUIRED_PPE, absent)
            /\ \A p \in Arrivals(boxes) :
                   detect(p).missing_items = ret[1].missing_items

\* gloves arrive before the helmet and a second frame misses two categories
C5_Witness ==
    /\ apc = "done"
    /\ Len(boxes) = 3
    /\ boxes[1].cls = 2 /\ boxes[2].cls = 3 /\ boxes[3].cls = 4
    /\ ret[1].missing_items = <<helmet, safety_glasses>>

\* C6: after one frame, a category with boxes has the largest confidence of
\* its boxes as its confidence, and a category without boxes has confidence
\* 0.0, detected false and no boxes.
C6_BestConfidenceIsMaximum ==
    apc = "done" =>
        \A c \in {helmet, safety_glasses, gloves} :
            LET state == ret[1].detected_items[c]
                confs == {boxes[j].conf : j \in BoxesOf(boxes, c)}
            IN  IF confs # {}
                THEN /\ state.detected
                     /\ state.confidence = SetMax(confs)
                     /\ Len(state.boxes) = Cardinality(BoxesOf(boxes, c))
                ELSE /\ ~state.detected
                     /\ state.confidence = 0
                     /\ state.boxes = <<>>

\* three helmets with confidences 0.30, 0.81, 0.50 and no gloves
C6_Witness ==
    /\ apc = "done"
    /\ Len(boxes) = 3
    /\ \A j \in 1..3 : boxes[j].cls = 0
    /\ boxes[1].conf = 30 /\ boxes[2].conf = 81 /\ boxes[3].conf = 50
    /\ ret[1].detected_items[helmet].confidence = 81
    /\ ret[1].detected_items[gloves].confidence = 0

Streaming == {"read", "detect", "annotate", "encode", "yield", "suspended"}

\* C1: every step that takes a generator out of the streaming positions (a
\* failed read, a close at the yield, an exception of detect, annotate_frame
\* or imencode) calls camera.release(), for the first and only time; after a
\* release no chunk is emitted and no further release is made.
C1_ReleasedOnceOnEveryExit ==
    [][\A t \in Threads :
          /\ (pc[t] \in Streaming /\ pc'[t] \notin Streaming)
                => /\ releases[t] = 0
                   /\ releases'[t] = 1
                   /\ camera'[t] = "released"
          /\ releases[t] >= 1
                => /\ emitted'[t] = emitted[t]
                   /\ releases'[t] = releases[t]
          /\ pc[t] \in Streaming => releases[t] = 0]_vars

\* a stream that emitted a chunk and then ended by an exception, released once
C1_Witness ==
    \E t \in Threads :
        /\ pc[t] = "done"
        /\ exitReason[t] = "exception"
        /\ Len(emitted[t]) >= 1
        /\ releases[t] = 1

C3_ReleaseAttemptedOnFailedStart ==
    \A t \in Threads :
        exitReason[t] \in {"model_missing", "open_failed"}
            => /\ pc[t] = "done"
               /\ emitted[t] = <<>>
               /\ releases[t] >= 1

C10_DetectorConstructedOnce ==
    constructed <= 1

====
